---- MODULE Spec2Model ----
(***************************************************************************)
(* Knuth-Morris-Pratt and Z-algorithm string matching:                     *)
(*   computeLPS, KMPSearch            (src/knuth_morris_pratt.cc)          *)
(*   computeZArray, zAlgorithmSearch  (src/unnamed/part_000)               *)
(* Each routine is modelled statement by statement.  C++ indices are kept  *)
(* 0-based; a vector or string v is a TLA+ sequence and v[k] is v[k+1].    *)
(***************************************************************************)
EXTENDS Integers, Sequences, FiniteSets, TLC

\* Longest string handed to computeLPS / computeZArray when called directly.
MaxStr == 7
\* Longest text and pattern handed to KMPSearch / zAlgorithmSearch.
MaxText == 6
MaxPat == 4

Symbols == {"a", "b"}

Strings(n) == UNION {[1..k -> Symbols] : k \in 0..n}

Min(a, b) == IF a < b THEN a ELSE b

Max(S) == CHOOSE x \in S : \A y \in S : y <= x

(***************************************************************************)
(* Indexed access.  An index outside 0..size-1 is undefined behaviour: a   *)
(* read may yield any value, a write leaves the vector as it was, and the  *)
(* access is recorded in oob.                                              *)
(***************************************************************************)
InRange(v, k) == k \in 0..(Len(v) - 1)

AnyChar == Symbols \cup {"nul"}

AnyInt == -1..MaxStr

RdChar(v, k) == IF InRange(v, k) THEN {v[k + 1]} ELSE AnyChar

RdInt(v, k) == IF InRange(v, k) THEN {v[k + 1]} ELSE AnyInt

Wr(v, k, x) == IF InRange(v, k) THEN [v EXCEPT ![k + 1] = x] ELSE v

\* The outcomes of the comparison a[i] == b[j].
Eq(a, i, b, j) == {x = y : x \in RdChar(a, i), y \in RdChar(b, j)}

\* vector<int> v(n, 0)
Zeros(n) == [k \in 1..n |-> 0]

VARIABLES
    run,        \* which entry point the harness exercises
    text,       \* harness input
    pattern,    \* harness input
    pc,         \* position in the code
    ret,        \* caller of the running computeLPS / computeZArray
    lpsF,       \* locals of computeLPS
    kmpF,       \* locals of KMPSearch
    zF,         \* locals of computeZArray
    zsF,        \* locals of zAlgorithmSearch
    result,     \* the array each routine returned to the harness
    returned,   \* the routines that have returned to the harness
    oob         \* some access so far was outside its sequence

vars == <<run, text, pattern, pc, ret, lpsF, kmpF, zF, zsF, result, returned, oob>>

Routines == {"computeLPS", "KMPSearch", "computeZArray", "zAlgorithmSearch"}

NoLPS == [pattern |-> <<>>, m |-> 0, lps |-> <<>>, i |-> 0, j |-> 0,
          fallbacks |-> 0, increments |-> 0, iprev |-> 0]

NoKMP == [text |-> <<>>, pattern |-> <<>>, n |-> 0, m |-> 0, lps_pattern |-> <<>>,
          lps |-> <<>>, i |-> 0, j |-> 0, i0 |-> 0, j0 |-> 0]

NoZ == [s |-> <<>>, n |-> 0, Z |-> <<>>, L |-> 0, R |-> 0, i |-> 0, Rprev |-> 0]

NoZS == [text |-> <<>>, pattern |-> <<>>, n |-> 0, m |-> 0, Z |-> <<>>,
         Z_pattern |-> <<>>, L |-> 0, R |-> 0, i |-> 0, Rprev |-> 0]

Init ==
    /\ run \in {"computeLPS", "computeZArray", "search"}
    /\ \/ run = "search" /\ text \in Strings(MaxText) /\ pattern \in Strings(MaxPat)
       \/ run # "search" /\ text = <<>> /\ pattern \in Strings(MaxStr)
    /\ pc = "main"
    /\ ret = "main"
    /\ lpsF = NoLPS
    /\ kmpF = NoKMP
    /\ zF = NoZ
    /\ zsF = NoZS
    /\ result = [r \in Routines |-> <<>>]
    /\ returned = {}
    /\ oob = FALSE

(***************************************************************************)
(* computeLPS                                                              *)
(***************************************************************************)
\* Entry: m = pattern.length(); lps(m, 0); i = 1; j = 0.
\* fallbacks, increments and iprev are history fields: the number of
\* executions of line 34, of line 29, and i before the last iteration.
computeLPS_enter(p) ==
    [pattern |-> p, m |-> Len(p), lps |-> Zeros(Len(p)), i |-> 1, j |-> 0,
     fallbacks |-> 0, increments |-> 0, iprev |-> 1]

main_computeLPS ==
    /\ pc = "main" /\ run = "computeLPS"
    /\ lpsF' = computeLPS_enter(pattern)
    /\ ret' = "main"
    /\ pc' = "computeLPS_while"
    /\ UNCHANGED <<run, text, pattern, kmpF, zF, zsF, result, returned, oob>>

\* if (pattern[i] == pattern[j]) { j++; lps[i] = j; i++; }
computeLPS_match ==
    /\ pc = "computeLPS_while" /\ lpsF.i < lpsF.m
    /\ TRUE \in Eq(lpsF.pattern, lpsF.i, lpsF.pattern, lpsF.j)
    /\ lpsF' = [lpsF EXCEPT !.j = @ + 1,
                            !.lps = Wr(@, lpsF.i, lpsF.j + 1),
                            !.i = @ + 1,
                            !.increments = @ + 1,
                            !.iprev = lpsF.i]
    /\ oob' = (oob \/ ~InRange(lpsF.pattern, lpsF.i) \/ ~InRange(lpsF.pattern, lpsF.j)
                   \/ ~InRange(lpsF.lps, lpsF.i))
    /\ UNCHANGED <<run, text, pattern, pc, ret, kmpF, zF, zsF, result, returned>>

\* j after the fallback of line 34: lps[j - 1]
computeLPS_fallback_j_same(lps, j) == RdInt(lps, j)

computeLPS_fallback_j_zero(lps, j) == {0}

computeLPS_fallback_j(lps, j) == RdInt(lps, j - 1)

\* else if (j != 0) { j = lps[j - 1]; }
computeLPS_fallback ==
    /\ pc = "computeLPS_while" /\ lpsF.i < lpsF.m
    /\ FALSE \in Eq(lpsF.pattern, lpsF.i, lpsF.pattern, lpsF.j)
    /\ lpsF.j # 0
    /\ \E nj \in computeLPS_fallback_j(lpsF.lps, lpsF.j) :
          lpsF' = [lpsF EXCEPT !.j = nj, !.fallbacks = @ + 1, !.iprev = lpsF.i]
    /\ oob' = (oob \/ ~InRange(lpsF.pattern, lpsF.i) \/ ~InRange(lpsF.pattern, lpsF.j)
                   \/ ~InRange(lpsF.lps, lpsF.j - 1))
    /\ UNCHANGED <<run, text, pattern, pc, ret, kmpF, zF, zsF, result, returned>>

\* else { lps[i] = 0; i++; }
computeLPS_reset ==
    /\ pc = "computeLPS_while" /\ lpsF.i < lpsF.m
    /\ FALSE \in Eq(lpsF.pattern, lpsF.i, lpsF.pattern, lpsF.j)
    /\ lpsF.j = 0
    /\ lpsF' = [lpsF EXCEPT !.lps = Wr(@, lpsF.i, 0), !.i = @ + 1, !.iprev = lpsF.i]
    /\ oob' = (oob \/ ~InRange(lpsF.pattern, lpsF.i) \/ ~InRange(lpsF.pattern, lpsF.j)
                   \/ ~InRange(lpsF.lps, lpsF.i))
    /\ UNCHANGED <<run, text, pattern, pc, ret, kmpF, zF, zsF, result, returned>>

\* return lps;  to the harness, or to KMPSearch line 64
computeLPS_return ==
    /\ pc = "computeLPS_while" /\ ~(lpsF.i < lpsF.m)
    /\ IF ret = "main"
       THEN /\ result' = [result EXCEPT !.computeLPS = lpsF.lps]
            /\ returned' = returned \cup {"computeLPS"}
            /\ pc' = "done"
            /\ UNCHANGED kmpF
       ELSE /\ kmpF' = [kmpF EXCEPT !.lps_pattern = lpsF.lps]
            /\ pc' = "KMPSearch_while"
            /\ UNCHANGED <<result, returned>>
    /\ UNCHANGED <<run, text, pattern, ret, lpsF, zF, zsF, oob>>

(***************************************************************************)
(* KMPSearch                                                               *)
(***************************************************************************)
\* n = text.length(); m = pattern.length(); if (m == 0) return {};
KMPSearch_empty ==
    /\ pc = "main" /\ run = "search"
    /\ Len(pattern) = 0
    /\ kmpF' = [NoKMP EXCEPT !.text = text, !.pattern = pattern, !.n = Len(text), !.m = 0]
    /\ result' = [result EXCEPT !.KMPSearch = <<>>]
    /\ returned' = returned \cup {"KMPSearch"}
    /\ pc' = "main_zAlgorithmSearch"
    /\ UNCHANGED <<run, text, pattern, ret, lpsF, zF, zsF, oob>>

\* lps_pattern = computeLPS(pattern); lps(n); i = 0; j = 0;
\* i0 and j0 are history fields: i and j at the head of the current iteration.
KMPSearch_begin ==
    /\ pc = "main" /\ run = "search"
    /\ Len(pattern) # 0
    /\ kmpF' = [text |-> text, pattern |-> pattern, n |-> Len(text), m |-> Len(pattern),
                lps_pattern |-> <<>>, lps |-> Zeros(Len(text)), i |-> 0, j |-> 0,
                i0 |-> 0, j0 |-> 0]
    /\ lpsF' = computeLPS_enter(pattern)
    /\ ret' = "KMPSearch"
    /\ pc' = "computeLPS_while"
    /\ UNCHANGED <<run, text, pattern, zF, zsF, result, returned, oob>>

\* while (i < n) { if (pattern[j] == text[i]) { j++; lps[i] = j; i++; }
KMPSearch_match ==
    /\ pc = "KMPSearch_while" /\ kmpF.i < kmpF.n
    /\ TRUE \in Eq(kmpF.pattern, kmpF.j, kmpF.text, kmpF.i)
    /\ kmpF' = [kmpF EXCEPT !.j = @ + 1,
                            !.lps = Wr(@, kmpF.i, kmpF.j + 1),
                            !.i = @ + 1,
                            !.i0 = kmpF.i, !.j0 = kmpF.j]
    /\ oob' = (oob \/ ~InRange(kmpF.pattern, kmpF.j) \/ ~InRange(kmpF.text, kmpF.i)
                   \/ ~InRange(kmpF.lps, kmpF.i))
    /\ pc' = "KMPSearch_if"
    /\ UNCHANGED <<run, text, pattern, ret, lpsF, zF, zsF, result, returned>>

\* the first if of the iteration is not taken
KMPSearch_nomatch ==
    /\ pc = "KMPSearch_while" /\ kmpF.i < kmpF.n
    /\ FALSE \in Eq(kmpF.pattern, kmpF.j, kmpF.text, kmpF.i)
    /\ kmpF' = [kmpF EXCEPT !.i0 = kmpF.i, !.j0 = kmpF.j]
    /\ oob' = (oob \/ ~InRange(kmpF.pattern, kmpF.j) \/ ~InRange(kmpF.text, kmpF.i))
    /\ pc' = "KMPSearch_if"
    /\ UNCHANGED <<run, text, pattern, ret, lpsF, zF, zsF, result, returned>>

\* j after a full match (line 75): lps_pattern[j - 1]
KMPSearch_fullmatch_j_zero(lps_pattern, j) == {0}

KMPSearch_fullmatch_j(lps_pattern, j) == RdInt(lps_pattern, j - 1)

\* if (j == m) { j = lps_pattern[j - 1]; }
KMPSearch_fullmatch ==
    /\ pc = "KMPSearch_if"
    /\ kmpF.j = kmpF.m
    /\ \E nj \in KMPSearch_fullmatch_j(kmpF.lps_pattern, kmpF.j) :
          kmpF' = [kmpF EXCEPT !.j = nj]
    /\ oob' = (oob \/ ~InRange(kmpF.lps_pattern, kmpF.j - 1))
    /\ pc' = "KMPSearch_while"
    /\ UNCHANGED <<run, text, pattern, ret, lpsF, zF, zsF, result, returned>>

\* the bound test of line 76 that guards the reads pattern[j], text[i]
KMPSearch_elseif_bound_none(i, n) == TRUE

KMPSearch_elseif_bound(i, n) == i < n

\* j after the fallback of line 78: lps_pattern[j - 1]
KMPSearch_fallback_j_same(lps_pattern, j) == RdInt(lps_pattern, j)

KMPSearch_fallback_j_zero(lps_pattern, j) == {0}

KMPSearch_fallback_j(lps_pattern, j) == RdInt(lps_pattern, j - 1)

\* else if (i < n && pattern[j] != text[i]) { if (j != 0) { j = lps_pattern[j - 1]; }
KMPSearch_fallback ==
    /\ pc = "KMPSearch_if"
    /\ kmpF.j # kmpF.m
    /\ KMPSearch_elseif_bound(kmpF.i, kmpF.n)
    /\ FALSE \in Eq(kmpF.pattern, kmpF.j, kmpF.text, kmpF.i)
    /\ kmpF.j # 0
    /\ \E nj \in KMPSearch_fallback_j(kmpF.lps_pattern, kmpF.j) :
          kmpF' = [kmpF EXCEPT !.j = nj]
    /\ oob' = (oob \/ ~InRange(kmpF.pattern, kmpF.j) \/ ~InRange(kmpF.text, kmpF.i)
                   \/ ~InRange(kmpF.lps_pattern, kmpF.j - 1))
    /\ pc' = "KMPSearch_while"
    /\ UNCHANGED <<run, text, pattern, ret, lpsF, zF, zsF, result, returned>>

\* ... else { lps[i] = 0; i++; } }
KMPSearch_reset ==
    /\ pc = "KMPSearch_if"
    /\ kmpF.j # kmpF.m
    /\ KMPSearch_elseif_bound(kmpF.i, kmpF.n)
    /\ FALSE \in Eq(kmpF.pattern, kmpF.j, kmpF.text, kmpF.i)
    /\ kmpF.j = 0
    /\ kmpF' = [kmpF EXCEPT !.lps = Wr(@, kmpF.i, 0), !.i = @ + 1]
    /\ oob' = (oob \/ ~InRange(kmpF.pattern, kmpF.j) \/ ~InRange(kmpF.text, kmpF.i)
                   \/ ~InRange(kmpF.lps, kmpF.i))
    /\ pc' = "KMPSearch_while"
    /\ UNCHANGED <<run, text, pattern, ret, lpsF, zF, zsF, result, returned>>

\* neither j == m nor (i < n && pattern[j] != text[i]): the iteration ends
KMPSearch_next ==
    /\ pc = "KMPSearch_if"
    /\ kmpF.j # kmpF.m
    /\ \/ /\ ~KMPSearch_elseif_bound(kmpF.i, kmpF.n)
          /\ oob' = oob
       \/ /\ KMPSearch_elseif_bound(kmpF.i, kmpF.n)
          /\ TRUE \in Eq(kmpF.pattern, kmpF.j, kmpF.text, kmpF.i)
          /\ oob' = (oob \/ ~InRange(kmpF.pattern, kmpF.j) \/ ~InRange(kmpF.text, kmpF.i))
    /\ pc' = "KMPSearch_while"
    /\ UNCHANGED <<run, text, pattern, ret, lpsF, kmpF, zF, zsF, result, returned>>

\* return lps;
KMPSearch_return ==
    /\ pc = "KMPSearch_while" /\ ~(kmpF.i < kmpF.n)
    /\ result' = [result EXCEPT !.KMPSearch = kmpF.lps]
    /\ returned' = returned \cup {"KMPSearch"}
    /\ pc' = "main_zAlgorithmSearch"
    /\ UNCHANGED <<run, text, pattern, ret, lpsF, kmpF, zF, zsF, oob>>

(***************************************************************************)
(* computeZArray                                                           *)
(***************************************************************************)
main_computeZArray ==
    /\ pc = "main" /\ run = "computeZArray"
    /\ zF' = [NoZ EXCEPT !.s = pattern, !.n = Len(pattern)]
    /\ ret' = "main"
    /\ pc' = "computeZArray"
    /\ UNCHANGED <<run, text, pattern, lpsF, kmpF, zsF, result, returned, oob>>

\* return Z;  to the harness, or to zAlgorithmSearch line 81
computeZArray_hands(Z) ==
    IF ret = "main"
    THEN /\ result' = [result EXCEPT !.computeZArray = Z]
         /\ returned' = returned \cup {"computeZArray"}
         /\ pc' = "done"
         /\ UNCHANGED zsF
    ELSE /\ zsF' = [zsF EXCEPT !.Z_pattern = Z]
         /\ pc' = "zAlgorithmSearch_for"
         /\ UNCHANGED <<result, returned>>

\* if (n == 0) return {};
computeZArray_empty ==
    /\ pc = "computeZArray"
    /\ zF.n = 0
    /\ computeZArray_hands(<<>>)
    /\ UNCHANGED <<run, text, pattern, ret, lpsF, kmpF, zF, oob>>

\* Z(n, 0); L = 0, R = 0; Z[0] = n; i = 1
\* Rprev is a history field: R at the head of the current iteration.
computeZArray_init ==
    /\ pc = "computeZArray"
    /\ zF.n # 0
    /\ zF' = [zF EXCEPT !.Z = Wr(Zeros(zF.n), 0, zF.n),
                        !.L = 0, !.R = 0, !.i = 1, !.Rprev = 0]
    /\ pc' = "computeZArray_for"
    /\ UNCHANGED <<run, text, pattern, ret, lpsF, kmpF, zsF, result, returned, oob>>

\* the test of line 32
computeZArray_outside(i, R) == i > R

\* if (i > R) { L = R = i;
computeZArray_out ==
    /\ pc = "computeZArray_for" /\ zF.i < zF.n
    /\ computeZArray_outside(zF.i, zF.R)
    /\ zF' = [zF EXCEPT !.L = zF.i, !.R = zF.i, !.Rprev = zF.R]
    /\ pc' = "computeZArray_while1"
    /\ UNCHANGED <<run, text, pattern, ret, lpsF, kmpF, zsF, result, returned, oob>>

\* the test of line 43
computeZArray_copies_leq(Zk, R, i) == Zk <= R - i + 1

computeZArray_copies(Zk, R, i) == Zk < R - i + 1

\* else { k = i - L; if (Z[k] < R - i + 1) { Z[i] = Z[k]; }
computeZArray_copy ==
    /\ pc = "computeZArray_for" /\ zF.i < zF.n
    /\ ~computeZArray_outside(zF.i, zF.R)
    /\ \E Zk \in RdInt(zF.Z, zF.i - zF.L) :
          /\ computeZArray_copies(Zk, zF.R, zF.i)
          /\ zF' = [zF EXCEPT !.Z = Wr(@, zF.i, Zk), !.i = @ + 1, !.Rprev = zF.R]
    /\ oob' = (oob \/ ~InRange(zF.Z, zF.i - zF.L) \/ ~InRange(zF.Z, zF.i))
    /\ UNCHANGED <<run, text, pattern, pc, ret, lpsF, kmpF, zsF, result, returned>>

\* else { L = i;
computeZArray_in ==
    /\ pc = "computeZArray_for" /\ zF.i < zF.n
    /\ ~computeZArray_outside(zF.i, zF.R)
    /\ \E Zk \in RdInt(zF.Z, zF.i - zF.L) : ~computeZArray_copies(Zk, zF.R, zF.i)
    /\ zF' = [zF EXCEPT !.L = zF.i, !.Rprev = zF.R]
    /\ oob' = (oob \/ ~InRange(zF.Z, zF.i - zF.L))
    /\ pc' = "computeZArray_while2"
    /\ UNCHANGED <<run, text, pattern, ret, lpsF, kmpF, zsF, result, returned>>

\* while (R < n && s[R - L] == s[R]) { R++; }
computeZArray_extend(at) ==
    /\ pc = at
    /\ zF.R < zF.n
    /\ TRUE \in Eq(zF.s, zF.R - zF.L, zF.s, zF.R)
    /\ zF' = [zF EXCEPT !.R = @ + 1]
    /\ oob' = (oob \/ ~InRange(zF.s, zF.R - zF.L) \/ ~InRange(zF.s, zF.R))
    /\ UNCHANGED <<run, text, pattern, pc, ret, lpsF, kmpF, zsF, result, returned>>

\* R when the iteration ends (lines 38, 52): R--
computeZArray_close_R(R) == R - 1

\* the loop test fails; Z[i] = R - L; R--; and ++i
computeZArray_close(at) ==
    /\ pc = at
    /\ \/ /\ ~(zF.R < zF.n)
          /\ oob' = (oob \/ ~InRange(zF.Z, zF.i))
       \/ /\ zF.R < zF.n
          /\ FALSE \in Eq(zF.s, zF.R - zF.L, zF.s, zF.R)
          /\ oob' = (oob \/ ~InRange(zF.s, zF.R - zF.L) \/ ~InRange(zF.s, zF.R)
                         \/ ~InRange(zF.Z, zF.i))
    /\ zF' = [zF EXCEPT !.Z = Wr(@, zF.i, zF.R - zF.L),
                        !.R = computeZArray_close_R(zF.R),
                        !.i = @ + 1]
    /\ pc' = "computeZArray_for"
    /\ UNCHANGED <<run, text, pattern, ret, lpsF, kmpF, zsF, result, returned>>

computeZArray_while1_extend == computeZArray_extend("computeZArray_while1")

computeZArray_while1_close == computeZArray_close("computeZArray_while1")

computeZArray_while2_extend == computeZArray_extend("computeZArray_while2")

computeZArray_while2_close == computeZArray_close("computeZArray_while2")

\* the for loop ends; return Z;
computeZArray_return ==
    /\ pc = "computeZArray_for" /\ ~(zF.i < zF.n)
    /\ computeZArray_hands(zF.Z)
    /\ UNCHANGED <<run, text, pattern, ret, lpsF, kmpF, zF, oob>>

(***************************************************************************)
(* zAlgorithmSearch  (n is the pattern's length and m the text's)          *)
(***************************************************************************)
\* n = pattern.length(); m = text.length(); Z(m, 0); if (n == 0) return Z;
zAlgorithmSearch_empty ==
    /\ pc = "main_zAlgorithmSearch"
    /\ Len(pattern) = 0
    /\ zsF' = [NoZS EXCEPT !.text = text, !.pattern = pattern, !.n = 0, !.m = Len(text),
                           !.Z = Zeros(Len(text))]
    /\ result' = [result EXCEPT !.zAlgorithmSearch = Zeros(Len(text))]
    /\ returned' = returned \cup {"zAlgorithmSearch"}
    /\ pc' = "done"
    /\ UNCHANGED <<run, text, pattern, ret, lpsF, kmpF, zF, oob>>

\* Z_pattern = computeZArray(pattern); L = 0, R = -1; i = 0
\* Rprev is a history field: R at the head of the current iteration.
zAlgorithmSearch_begin ==
    /\ pc = "main_zAlgorithmSearch"
    /\ Len(pattern) # 0
    /\ zsF' = [text |-> text, pattern |-> pattern, n |-> Len(pattern), m |-> Len(text),
               Z |-> Zeros(Len(text)), Z_pattern |-> <<>>, L |-> 0, R |-> -1, i |-> 0,
               Rprev |-> -1]
    /\ zF' = [NoZ EXCEPT !.s = pattern, !.n = Len(pattern)]
    /\ ret' = "zAlgorithmSearch"
    /\ pc' = "computeZArray"
    /\ UNCHANGED <<run, text, pattern, lpsF, kmpF, result, returned, oob>>

\* the test of line 88
zAlgorithmSearch_outside_geq(i, R) == i >= R

zAlgorithmSearch_outside(i, R) == i > R

\* Z[i] = 0; if (i > R) { L = R = i;
zAlgorithmSearch_out ==
    /\ pc = "zAlgorithmSearch_for" /\ zsF.i < zsF.m
    /\ zAlgorithmSearch_outside(zsF.i, zsF.R)
    /\ zsF' = [zsF EXCEPT !.Z = Wr(@, zsF.i, 0), !.L = zsF.i, !.R = zsF.i, !.Rprev = zsF.R]
    /\ oob' = (oob \/ ~InRange(zsF.Z, zsF.i))
    /\ pc' = "zAlgorithmSearch_while1"
    /\ UNCHANGED <<run, text, pattern, ret, lpsF, kmpF, zF, result, returned>>

\* the test of line 99
zAlgorithmSearch_copies_leq(Zk, R, i) == Zk <= R - i + 1

zAlgorithmSearch_copies(Zk, R, i) == Zk < R - i + 1

\* Z[i] = 0; else { k = i - L; if (Z_pattern[k] < R - i + 1) { Z[i] = Z_pattern[k]; }
zAlgorithmSearch_copy ==
    /\ pc = "zAlgorithmSearch_for" /\ zsF.i < zsF.m
    /\ ~zAlgorithmSearch_outside(zsF.i, zsF.R)
    /\ \E Zk \in RdInt(zsF.Z_pattern, zsF.i - zsF.L) :
          /\ zAlgorithmSearch_copies(Zk, zsF.R, zsF.i)
          /\ zsF' = [zsF EXCEPT !.Z = Wr(Wr(@, zsF.i, 0), zsF.i, Zk), !.i = @ + 1,
                                !.Rprev = zsF.R]
    /\ oob' = (oob \/ ~InRange(zsF.Z_pattern, zsF.i - zsF.L) \/ ~InRange(zsF.Z, zsF.i))
    /\ UNCHANGED <<run, text, pattern, pc, ret, lpsF, kmpF, zF, result, returned>>

\* Z[i] = 0; else { L = i;
zAlgorithmSearch_in ==
    /\ pc = "zAlgorithmSearch_for" /\ zsF.i < zsF.m
    /\ ~zAlgorithmSearch_outside(zsF.i, zsF.R)
    /\ \E Zk \in RdInt(zsF.Z_pattern, zsF.i - zsF.L) :
          ~zAlgorithmSearch_copies(Zk, zsF.R, zsF.i)
    /\ zsF' = [zsF EXCEPT !.Z = Wr(@, zsF.i, 0), !.L = zsF.i, !.Rprev = zsF.R]
    /\ oob' = (oob \/ ~InRange(zsF.Z_pattern, zsF.i - zsF.L) \/ ~InRange(zsF.Z, zsF.i))
    /\ pc' = "zAlgorithmSearch_while2"
    /\ UNCHANGED <<run, text, pattern, ret, lpsF, kmpF, zF, result, returned>>

\* the bound tests of lines 90 and 104: R < m && (R - L) < n
zAlgorithmSearch_bound(R, L, m, n) == R < m /\ (R - L) < n

\* while (R < m && (R - L) < n && text[R] == pattern[R - L]) { R++; }
zAlgorithmSearch_extend(at) ==
    /\ pc = at
    /\ zAlgorithmSearch_bound(zsF.R, zsF.L, zsF.m, zsF.n)
    /\ TRUE \in Eq(zsF.text, zsF.R, zsF.pattern, zsF.R - zsF.L)
    /\ zsF' = [zsF EXCEPT !.R = @ + 1]
    /\ oob' = (oob \/ ~InRange(zsF.text, zsF.R) \/ ~InRange(zsF.pattern, zsF.R - zsF.L))
    /\ UNCHANGED <<run, text, pattern, pc, ret, lpsF, kmpF, zF, result, returned>>

\* R when the iteration ends (lines 94, 108): R--
zAlgorithmSearch_close_R_keep(R) == R

zAlgorithmSearch_close_R(R) == R - 1

\* the loop test fails; Z[i] = R - L; R--; and ++i
zAlgorithmSearch_close(at) ==
    /\ pc = at
    /\ \/ /\ ~zAlgorithmSearch_bound(zsF.R, zsF.L, zsF.m, zsF.n)
          /\ oob' = (oob \/ ~InRange(zsF.Z, zsF.i))
       \/ /\ zAlgorithmSearch_bound(zsF.R, zsF.L, zsF.m, zsF.n)
          /\ FALSE \in Eq(zsF.text, zsF.R, zsF.pattern, zsF.R - zsF.L)
          /\ oob' = (oob \/ ~InRange(zsF.text, zsF.R) \/ ~InRange(zsF.pattern, zsF.R - zsF.L)
                         \/ ~InRange(zsF.Z, zsF.i))
    /\ zsF' = [zsF EXCEPT !.Z = Wr(@, zsF.i, zsF.R - zsF.L),
                          !.R = zAlgorithmSearch_close_R(zsF.R),
                          !.i = @ + 1]
    /\ pc' = "zAlgorithmSearch_for"
    /\ UNCHANGED <<run, text, pattern, ret, lpsF, kmpF, zF, result, returned>>

zAlgorithmSearch_while1_extend == zAlgorithmSearch_extend("zAlgorithmSearch_while1")

zAlgorithmSearch_while1_close == zAlgorithmSearch_close("zAlgorithmSearch_while1")

zAlgorithmSearch_while2_extend == zAlgorithmSearch_extend("zAlgorithmSearch_while2")

zAlgorithmSearch_while2_close == zAlgorithmSearch_close("zAlgorithmSearch_while2")

\* the for loop ends; return Z;
zAlgorithmSearch_return ==
    /\ pc = "zAlgorithmSearch_for" /\ ~(zsF.i < zsF.m)
    /\ result' = [result EXCEPT !.zAlgorithmSearch = zsF.Z]
    /\ returned' = returned \cup {"zAlgorithmSearch"}
    /\ pc' = "done"
    /\ UNCHANGED <<run, text, pattern, ret, lpsF, kmpF, zF, zsF, oob>>

(***************************************************************************)
(* The system                                                              *)
(***************************************************************************)
Next ==
    \/ main_computeLPS
    \/ computeLPS_match
    \/ computeLPS_fallback
    \/ computeLPS_reset
    \/ computeLPS_return
    \/ KMPSearch_empty
    \/ KMPSearch_begin
    \/ KMPSearch_match
    \/ KMPSearch_nomatch
    \/ KMPSearch_fullmatch
    \/ KMPSearch_fallback
    \/ KMPSearch_reset
    \/ KMPSearch_next
    \/ KMPSearch_return
    \/ main_computeZArray
    \/ computeZArray_empty
    \/ computeZArray_init
    \/ computeZArray_out
    \/ computeZArray_copy
    \/ computeZArray_in
    \/ computeZArray_while1_extend
    \/ computeZArray_while1_close
    \/ computeZArray_while2_extend
    \/ computeZArray_while2_close
    \/ computeZArray_return
    \/ zAlgorithmSearch_empty
    \/ zAlgorithmSearch_begin
    \/ zAlgorithmSearch_out
    \/ zAlgorithmSearch_copy
    \/ zAlgorithmSearch_in
    \/ zAlgorithmSearch_while1_extend
    \/ zAlgorithmSearch_while1_close
    \/ zAlgorithmSearch_while2_extend
    \/ zAlgorithmSearch_while2_close
    \/ zAlgorithmSearch_return

Spec == Init /\ [][Next]_vars

\* The program is sequential and keeps running until main returns.
FairSpec == Spec /\ WF_vars(Next)

(***************************************************************************)
(* What the arrays are meant to hold                                       *)
(***************************************************************************)
\* v[a .. a+k), 0-based
Sub(v, a, k) == [t \in 1..k |-> v[a + t]]

\* the longest proper prefix of p[0..i] that is also a suffix of p[0..i]
LongestBorder(p, i) == Max({k \in 0..i : Sub(p, 0, k) = Sub(p, i - k + 1, k)})

\* the longest prefix of p that ends at t[i]
LongestPrefixEndingAt(t, p, i) ==
    Max({k \in 0..Min(Len(p), i + 1) : Sub(p, 0, k) = Sub(t, i - k + 1, k)})

\* the longest prefix of p that starts at t[i]
LongestPrefixStartingAt(t, p, i) ==
    Max({k \in 0..Min(Len(p), Len(t) - i) : Sub(t, i, k) = Sub(p, 0, k)})

OccursAt(t, p, a) == a >= 0 /\ a + Len(p) <= Len(t) /\ Sub(t, a, Len(p)) = p

IsLPS(p, a) ==
    /\ Len(a) = Len(p)
    /\ \A i \in 0..(Len(p) - 1) : a[i + 1] = LongestBorder(p, i) /\ a[i + 1] <= i
    /\ Len(p) >= 1 => a[1] = 0

IsKMP(t, p, a) ==
    IF Len(p) = 0
    THEN a = <<>>
    ELSE /\ Len(a) = Len(t)
         /\ \A i \in 0..(Len(t) - 1) :
               /\ a[i + 1] = LongestPrefixEndingAt(t, p, i)
               /\ OccursAt(t, p, i - Len(p) + 1) => a[i + 1] = Len(p)

IsZ(s, a) ==
    /\ Len(a) = Len(s)
    /\ Len(s) >= 1 => a[1] = Len(s)
    /\ \A i \in 1..(Len(s) - 1) : a[i + 1] = LongestPrefixStartingAt(s, s, i)

IsZSearch(t, p, a) ==
    /\ Len(a) = Len(t)
    /\ \A i \in 0..(Len(t) - 1) :
          /\ a[i + 1] = LongestPrefixStartingAt(t, p, i)
          /\ Len(p) = 0 => a[i + 1] = 0
          /\ Len(p) >= 1 => (a[i + 1] = Len(p) <=> OccursAt(t, p, i))

\* the positions an array signals: entry = length(pattern)
KmpSignalled == {i \in 0..(Len(result.KMPSearch) - 1) : result.KMPSearch[i + 1] = Len(pattern)}

ZSignalled ==
    {j \in 0..(Len(result.zAlgorithmSearch) - 1) : result.zAlgorithmSearch[j + 1] = Len(pattern)}

\* the positions of the text at which an occurrence of the pattern ends
OccurrenceEnds ==
    {e \in 0..(Len(text) - 1) : OccursAt(text, pattern, e - Len(pattern) + 1)}

\* computeLPS has been entered / has returned
computeLPS_called ==
    pc # "main" /\ (run = "computeLPS" \/ (run = "search" /\ Len(pattern) # 0))

computeLPS_finished == computeLPS_called /\ pc # "computeLPS_while"

\* main has returned with every array it asked for
Finished ==
    /\ pc = "done"
    /\ run = "computeLPS" => returned = {"computeLPS"} /\ Len(result.computeLPS) = Len(pattern)
    /\ run = "computeZArray" =>
          returned = {"computeZArray"} /\ Len(result.computeZArray) = Len(pattern)
    /\ run = "search" =>
          /\ returned = {"KMPSearch", "zAlgorithmSearch"}
          /\ Len(result.zAlgorithmSearch) = Len(text)
          /\ Len(result.KMPSearch) = (IF Len(pattern) = 0 THEN 0 ELSE Len(text))

(***************************************************************************)
(* Properties                                                              *)
(***************************************************************************)
\* C1: KMPSearch(text, pattern) is empty when the pattern is empty; otherwise it
\* has length n and entry i is the largest k in 0..m with pattern[0..k) equal to
\* the k symbols of text ending at i, so it is m at the end of every occurrence.
C1_KMPSearchResult ==
    "KMPSearch" \in returned => IsKMP(text, pattern, result.KMPSearch)

C1_Witness ==
    /\ "KMPSearch" \in returned
    /\ text = <<"a", "b", "a", "b", "a">> /\ pattern = <<"a", "b", "a">>
    /\ result.KMPSearch = <<1, 2, 3, 2, 3>>

\* C2: zAlgorithmSearch(text, pattern) has length n and entry i is the largest
\* k <= min(m, n - i) with text[i..i+k) = pattern[0..k); every entry is 0 for the
\* empty pattern, and otherwise an entry is m exactly at the start of an occurrence.
C2_ZSearchResult ==
    "zAlgorithmSearch" \in returned => IsZSearch(text, pattern, result.zAlgorithmSearch)

C2_Witness ==
    /\ "zAlgorithmSearch" \in returned
    /\ text = <<"a", "b", "a", "b", "a">> /\ pattern = <<"a", "b", "a">>
    /\ result.zAlgorithmSearch = <<3, 0, 3, 0, 1>>

\* C3 as stated: for every text and every pattern the positions KMPSearch signals
\* are the end offsets of the occurrences, and they correspond one to one to the
\* positions zAlgorithmSearch signals under j = i - length(pattern) + 1.
C3_Original ==
    {"KMPSearch", "zAlgorithmSearch"} \subseteq returned =>
        /\ KmpSignalled = OccurrenceEnds
        /\ {i - Len(pattern) + 1 : i \in KmpSignalled} = ZSignalled

\* C3: for every text and every non-empty pattern the positions KMPSearch signals
\* are the end offsets of the occurrences, and they correspond one to one to the
\* positions zAlgorithmSearch signals under j = i - length(pattern) + 1.
C3_Consistency ==
    ({"KMPSearch", "zAlgorithmSearch"} \subseteq returned /\ Len(pattern) >= 1) =>
        /\ KmpSignalled = OccurrenceEnds
        /\ {i - Len(pattern) + 1 : i \in KmpSignalled} = ZSignalled

C3_Witness ==
    /\ {"KMPSearch", "zAlgorithmSearch"} \subseteq returned
    /\ Len(pattern) >= 2
    /\ Cardinality(KmpSignalled) >= 2
    /\ \E i \in KmpSignalled : i + 1 \in KmpSignalled \/ i + 2 \in KmpSignalled

\* C4: computeLPS(pattern) has length m and entry i is the length of the longest
\* proper prefix of pattern[0..i] that is also its suffix; entry 0 is 0 and entry
\* i is at most i.  Checked on the array handed to main and to KMPSearch.
C4_LPSResult ==
    /\ "computeLPS" \in returned => IsLPS(pattern, result.computeLPS)
    /\ pc \in {"KMPSearch_while", "KMPSearch_if"} => IsLPS(kmpF.pattern, kmpF.lps_pattern)

C4_Witness ==
    /\ "computeLPS" \in returned
    /\ pattern = <<"a", "a", "b", "a", "a", "a">>
    /\ result.computeLPS = <<0, 1, 0, 1, 2, 2>>

\* C5: computeZArray(s) has length n, entry 0 is n, and entry i >= 1 is the
\* largest k <= n - i with s[0..k) = s[i..i+k).  Checked on the array handed to
\* main and to zAlgorithmSearch.
C5_ZArrayResult ==
    /\ "computeZArray" \in returned => IsZ(pattern, result.computeZArray)
    /\ pc \in {"zAlgorithmSearch_for", "zAlgorithmSearch_while1", "zAlgorithmSearch_while2"}
          => IsZ(zsF.pattern, zsF.Z_pattern)

C5_Witness ==
    /\ "computeZArray" \in returned
    /\ pattern = <<"a", "a", "b", "a", "a", "b">>
    /\ result.computeZArray = <<6, 1, 0, 3, 1, 0>>

\* C6: no routine reads or writes a string or vector outside 0..length-1, for any
\* lengths of text and pattern; in particular j < m where KMPSearch reads
\* pattern[j], and 0 <= i - L < length(pattern) where zAlgorithmSearch reads
\* Z_pattern[i - L].
C6_InBounds ==
    /\ oob = FALSE
    /\ pc = "KMPSearch_while" => (0 <= kmpF.j /\ kmpF.j < kmpF.m)
    /\ (pc = "zAlgorithmSearch_for" /\ zsF.i < zsF.m /\ zsF.i <= zsF.R)
          => (0 <= zsF.i - zsF.L /\ zsF.i - zsF.L < Len(zsF.pattern))

C6_Witness ==
    /\ pc = "done" /\ run = "search"
    /\ Len(text) >= 2 /\ Len(text) < Len(pattern)
    /\ result.KMPSearch[Len(text)] = Len(text)
    /\ oob = FALSE

\* C7: every routine terminates and returns its full array: each iteration of
\* the KMP loops advances i or strictly decreases j, and each step of the inner
\* loops of the Z routines increases R by one, up to its bound.
C7_Terminates ==
    /\ <>Finished
    /\ [][(pc = "computeLPS_while" /\ pc' = "computeLPS_while")
            => (lpsF'.i > lpsF.i \/ lpsF'.j < lpsF.j)]_vars
    /\ [][(pc = "KMPSearch_if" /\ pc' = "KMPSearch_while")
            => (kmpF'.i > kmpF.i0 \/ kmpF'.j < kmpF.j0)]_vars
    /\ [][(pc \in {"computeZArray_while1", "computeZArray_while2"} /\ pc' = pc)
            => (zF'.R = zF.R + 1 /\ zF'.R <= zF.n)]_vars
    /\ [][(pc \in {"zAlgorithmSearch_while1", "zAlgorithmSearch_while2"} /\ pc' = pc)
            => (zsF'.R = zsF.R + 1 /\ zsF'.R <= Min(zsF.m, zsF.L + zsF.n))]_vars

C7_Witness ==
    /\ Finished /\ run = "search"
    /\ Len(text) >= 4 /\ Len(pattern) >= 3
    /\ kmpF.i = Len(text) /\ zsF.i = Len(text)

\* C8 as stated: in computeLPS the fallbacks so far never exceed the increments
\* of j so far, the total number of fallbacks of a run is at most m - 1, and i
\* never moves backwards.
C8_Original ==
    /\ computeLPS_called => (lpsF.fallbacks <= lpsF.increments /\ lpsF.i >= lpsF.iprev)
    /\ computeLPS_finished => lpsF.fallbacks <= lpsF.m - 1

\* C8: in computeLPS the fallbacks so far never exceed the increments of j so
\* far, the total number of fallbacks of a run is at most m - 1 for a non-empty
\* pattern (and 0 for the empty one), and i never moves backwards.
C8_FallbacksBounded ==
    /\ computeLPS_called => (lpsF.fallbacks <= lpsF.increments /\ lpsF.i >= lpsF.iprev)
    /\ computeLPS_finished =>
          lpsF.fallbacks <= (IF lpsF.m >= 1 THEN lpsF.m - 1 ELSE 0)

C8_Witness ==
    /\ pc = "done" /\ run = "computeLPS"
    /\ lpsF.fallbacks >= 2
    /\ lpsF.fallbacks = lpsF.increments

\* C9: in computeZArray and zAlgorithmSearch, R at the end of an iteration is at
\* least R at the end of the iteration before it, and at least its initial value.
C9_RMonotone ==
    /\ pc = "computeZArray_for" => (zF.R >= zF.Rprev /\ zF.R >= 0)
    /\ pc = "zAlgorithmSearch_for" => (zsF.R >= zsF.Rprev /\ zsF.R >= -1)

\* an iteration that re-extended from inside the box and moved R
C9_Witness ==
    /\ pc = "zAlgorithmSearch_for"
    /\ zsF.i >= 2 /\ zsF.L = zsF.i - 1
    /\ zsF.Rprev >= zsF.L
    /\ zsF.R > zsF.Rprev

\* C10: at the head of every iteration [L, R] is a Z-box: in zAlgorithmSearch
\* R - L + 1 <= length(pattern), R <= length(text) - 1 and text[L + t] =
\* pattern[t] for t in 0..R-L (empty when R = L - 1); in computeZArray the same
\* with s in both roles.
C10_ZBox ==
    /\ pc = "zAlgorithmSearch_for" =>
          /\ 0 <= zsF.L /\ zsF.L - 1 <= zsF.R
          /\ zsF.R - zsF.L + 1 <= Len(zsF.pattern)
          /\ zsF.R <= Len(zsF.text) - 1
          /\ \A t \in 0..(zsF.R - zsF.L) : zsF.text[zsF.L + t + 1] = zsF.pattern[t + 1]
    /\ pc = "computeZArray_for" =>
          /\ 0 <= zF.L /\ zF.L - 1 <= zF.R
          /\ zF.R - zF.L + 1 <= Len(zF.s)
          /\ zF.R <= Len(zF.s) - 1
          /\ \A t \in 0..(zF.R - zF.L) : zF.s[zF.L + t + 1] = zF.s[t + 1]

C10_Witness ==
    /\ pc = "zAlgorithmSearch_for"
    /\ zsF.n >= 2 /\ zsF.L >= 1
    /\ zsF.R - zsF.L + 1 = zsF.n
    /\ zsF.i <= zsF.R

====
